---- MODULE Spec2Model ----
(***************************************************************************)
(* DeckBox generator (boxes/generators/deckbox.py).                        *)
(*                                                                         *)
(* Lengths are fixed-point numbers in tenths of a length unit, so that the *)
(* source's 0.5*t, t*.2, length/2-10 and wallheight/5 are exact on the     *)
(* inputs drawn here (all multiples of 10 tenths): the source's literal 10 *)
(* is written 100, x*.2 is (x*2) \div 10, 0.5*x is x \div 2.               *)
(*                                                                         *)
(* One run of DeckBox.render is a sequence of statements; pc is the index  *)
(* of the next statement of render to execute.                             *)
(***************************************************************************)
EXTENDS Integers, Sequences, FiniteSets, TLC

VARIABLES deckheight, cardwidth, cardheight, num, thickness,
          pc, edges, registered, cursor, ctx, groups, origins, restored,
          panels, placeholders

params == <<deckheight, cardwidth, cardheight, num, thickness>>
vars == <<deckheight, cardwidth, cardheight, num, thickness,
          pc, edges, registered, cursor, ctx, groups, origins, restored,
          panels, placeholders>>

(* ---- bounds of the model ------------------------------------------------ *)
MaxNum == 3

DeckHeights == {0, 100, 650}
CardWidths == {-50, 80, 140, 680}
CardHeights == {0, 500, 920}
Thicknesses == {0, 30, 60}
Nums == 0..MaxNum

(* ---- ParameterDeriver: the three properties of DeckBox ------------------ *)
boxwidth == num * (deckheight + thickness) + thickness

\* variant: only one side wall counted
boxdepth_oneWall == cardwidth + thickness

boxdepth == cardwidth + 2 * thickness

h == cardheight

(* ---- renderer primitives ------------------------------------------------ *)
fingerHolesAt(x, y, length, angle) ==
    [x |-> x, y |-> y, length |-> length, angle |-> angle]

edge(length, tabs) == [op |-> "edge", length |-> length, tabs |-> tabs]

corner(degrees, radius) == [op |-> "corner", degrees |-> degrees, radius |-> radius]

(* ---- the two custom edges ----------------------------------------------- *)
InsetEdge(length, t) ==
    << corner(90, 0), edge(t, 2), corner(-90, 0), edge(length, 2),
       corner(-90, 0), edge(t, 2), corner(90, 0) >>

\* variant: the reversal drawn as a sharp turn, without its radius
FingerHoleEdge_sharpTurn(length, wallheight) ==
    LET depth == wallheight \div 5
    IN  << edge(length \div 2 - 100, 2), corner(90, 0), edge(depth, 2),
           corner(-180, 0), edge(depth, 2), corner(90, 0),
           edge(length \div 2 - 100, 2) >>

FingerHoleEdge(length, wallheight) ==
    LET depth == wallheight \div 5
    IN  << edge(length \div 2 - 100, 2), corner(90, 0), edge(depth, 2),
           corner(-180, 100), edge(depth, 2), corner(90, 0),
           edge(length \div 2 - 100, 2) >>

(* ---- DividerHolePlacer -------------------------------------------------- *)
divider_bottom ==
    LET t == thickness
        c == deckheight
        y == boxdepth
    IN  [i \in 1..(num - 1) |-> fingerHolesAt(t \div 2 + (c + t) * i, 0, y, 90)]

\* variant: the half-thickness offset left out
divider_back_and_front_noHalf ==
    LET t == thickness
        c == deckheight
        y == cardheight
    IN  [i \in 1..(num - 1) |-> fingerHolesAt((c + t) * i, 0, y, 90)]

divider_back_and_front ==
    LET t == thickness
        c == deckheight
        y == cardheight
    IN  [i \in 1..(num - 1) |-> fingerHolesAt(t \div 2 + (c + t) * i, 0, y, 90)]

callbacks(name) ==
    CASE name = "divider_bottom" -> divider_bottom
      [] name = "divider_back_and_front" -> divider_back_and_front
      [] OTHER -> << >>

(* ---- the statements of render ------------------------------------------- *)
addPart(char, kind, setting) ==
    [op |-> "addPart", char |-> char, kind |-> kind, setting |-> setting]

saved_context_enter == [op |-> "enter"]

saved_context_exit == [op |-> "exit"]

rectangularWall(x, y, code, callback, move, label) ==
    [op |-> "rectangularWall", x |-> x, y |-> y, code |-> code,
     callback |-> callback, move |-> move, label |-> label]

RECURSIVE repeat(_, _)
repeat(stmts, n) == IF n <= 0 THEN << >> ELSE stmts \o repeat(stmts, n - 1)

\* variant: the second edge keeps the char of the first
RegisterEdges_sameChar ==
    LET t == thickness
    IN  << addPart("a", "InsetEdge", t),
           addPart("a", "FingerHoleEdge", cardheight) >>

\* lines 131-139: the two custom edges, registered under "a" and "A"
RegisterEdges ==
    LET t == thickness
    IN  << addPart("a", "InsetEdge", t),
           addPart("A", "FingerHoleEdge", h) >>

\* variant: the placeholder repeats the Lid's footprint, not the Bottom's
GroupLidBottom_lidPlaceholder ==
    LET t == thickness
        x == boxwidth
        y == boxdepth
    IN  << saved_context_enter,
           rectangularWall(x, y - (t * 2) \div 10, <<"e", "F", "e", "e">>, "none", "right", "Lid"),
           rectangularWall(x, y, <<"f", "f", "f", "f">>, "divider_bottom", "right", "Bottom"),
           saved_context_exit,
           rectangularWall(x, y - (t * 2) \div 10, <<"e", "E", "E", "E">>, "none", "up only", "") >>

\* lines 141-145
GroupLidBottom ==
    LET t == thickness
        x == boxwidth
        y == boxdepth
    IN  << saved_context_enter,
           rectangularWall(x, y - (t * 2) \div 10, <<"e", "F", "e", "e">>, "none", "right", "Lid"),
           rectangularWall(x, y, <<"f", "f", "f", "f">>, "divider_bottom", "right", "Bottom"),
           saved_context_exit,
           rectangularWall(x, y, <<"e", "E", "E", "E">>, "none", "up only", "") >>

\* lines 146-147
Lips ==
    LET t == thickness
        x == boxwidth
    IN  << rectangularWall(x, t, <<"f", "e", "e", "e">>, "none", "up", "Lip Front"),
           rectangularWall(x, t, <<"e", "e", "f", "e">>, "none", "up", "Lip Back") >>

\* lines 149-158
GroupBackFront ==
    LET t == thickness
        x == boxwidth
    IN  << saved_context_enter,
           rectangularWall(x, h + t, <<"F", "f", "F", "f">>, "divider_back_and_front", "right", "Back"),
           rectangularWall(x, h + t, <<"F", "f", "F", "f">>, "divider_back_and_front", "right", "Front"),
           saved_context_exit,
           rectangularWall(x, h + t, <<"E", "E", "E", "E">>, "none", "up only", "") >>

\* variant: both outer sides carry the rail
GroupOuterSides_bothRail ==
    LET t == thickness
        y == boxdepth
    IN  << saved_context_enter,
           rectangularWall(y, cardheight + t, <<"F", "F", "a", "F">>, "none", "right", "Outer Side Left"),
           rectangularWall(y, cardheight + t, <<"F", "F", "a", "F">>, "none", "right", "Outer Side Right"),
           saved_context_exit,
           rectangularWall(y, cardheight + t, <<"f", "F", "f", "F">>, "none", "up only", "") >>

\* lines 161-164
GroupOuterSides ==
    LET t == thickness
        y == boxdepth
    IN  << saved_context_enter,
           rectangularWall(y, h + t, <<"F", "F", "E", "F">>, "none", "right", "Outer Side Left"),
           rectangularWall(y, h + t, <<"F", "F", "a", "F">>, "none", "right", "Outer Side Right"),
           saved_context_exit,
           rectangularWall(y, h + t, <<"f", "F", "f", "F">>, "none", "up only", "") >>

\* lines 166-169
GroupInnerSides ==
    LET y == boxdepth
    IN  << saved_context_enter,
           rectangularWall(y, h, <<"A", "e", "e", "e">>, "none", "right", "Inner Side Left"),
           rectangularWall(y, h, <<"A", "e", "e", "e">>, "none", "right", "Inner Side Right"),
           saved_context_exit,
           rectangularWall(y, h, <<"e", "A", "e", "e">>, "none", "up only", "") >>

\* lines 171-173
GroupLidLip ==
    LET t == thickness
        y == boxdepth
    IN  << saved_context_enter,
           rectangularWall(y - (t * 2) \div 10, t, <<"f", "E", "e", "E">>, "none", "right", "Lid Lip"),
           saved_context_exit,
           rectangularWall(y, t * 2, <<"e", "f", "e", "e">>, "none", "up only", "") >>

\* variant: one divider per compartment, range(self.num)
Dividers_perCompartment ==
    LET y == boxdepth
    IN  repeat(<< rectangularWall(cardheight, y, <<"f", "A", "f", "f">>, "none", "right", "Divider") >>,
               num)

\* variant: the divider cut with width and height transposed
Dividers_transposed ==
    LET y == boxdepth
    IN  repeat(<< rectangularWall(y, cardheight, <<"f", "A", "f", "f">>, "none", "right", "Divider") >>,
               num - 1)

\* lines 175-176: for i in range(self.num - 1)
Dividers ==
    LET y == boxdepth
    IN  repeat(<< rectangularWall(h, y, <<"f", "A", "f", "f">>, "none", "right", "Divider") >>,
               num - 1)

\* lines 178-180: for i in range(self.num)
Inlays ==
    LET c == deckheight
    IN  repeat(<< rectangularWall(c, h, <<"e", "e", "e", "e">>, "none", "right", "Front inlay"),
                  rectangularWall(c, h, <<"e", "e", "e", "e">>, "none", "right", "Back inlay") >>,
               num)

\* line 182
LidTopper ==
    LET t == thickness
        x == boxwidth
        y == boxdepth
    IN  << rectangularWall(x, y - 2 * t, <<"e", "e", "e", "e">>, "none", "right", "Lid topper") >>

render ==
    RegisterEdges \o GroupLidBottom \o Lips \o GroupBackFront \o GroupOuterSides
        \o GroupInnerSides \o GroupLidLip \o Dividers \o Inlays \o LidTopper

(* ---- the renderer: edge registry, cursor, drawing ----------------------- *)
\* the edges the base generator registers before render runs
BaseEdges ==
    [ch \in {"e", "E", "f", "F"} |->
        [kind |-> CASE ch = "e" -> "Edge"
                    [] ch = "E" -> "OutSetEdge"
                    [] ch = "f" -> "FingerJointEdge"
                    [] ch = "F" -> "FingerJointEdgeCounterPart",
         setting |-> 0]]

CustomChars == {"a", "A"}

\* the cursor after a panel of footprint (x, y) was placed with directive where
move(cur, x, y, where) ==
    CASE where = "right" -> [x |-> cur.x + x, y |-> cur.y]
      [] where \in {"up", "up only"} -> [x |-> cur.x, y |-> cur.y + y]
      [] OTHER -> cur

\* what one side of the panel resolves to and draws
bindingOf(ch) ==
    IF ch \in DOMAIN edges THEN edges[ch].kind ELSE "UnregisteredEdgeSymbol"

pathOf(ch, length) ==
    IF ch \notin DOMAIN edges THEN << >>
    ELSE CASE edges[ch].kind = "InsetEdge" -> InsetEdge(length, edges[ch].setting)
           [] edges[ch].kind = "FingerHoleEdge" -> FingerHoleEdge(length, edges[ch].setting)
           [] OTHER -> << edge(length, 0) >>

(* ---- the turtle that follows an edge path ------------------------------- *)
Cos(a) == CASE a = 0 -> 1 [] a = 90 -> 0 [] a = 180 -> -1 [] a = 270 -> 0

Sin(a) == CASE a = 0 -> 0 [] a = 90 -> 1 [] a = 180 -> 0 [] a = 270 -> -1

Abs(n) == IF n < 0 THEN -n ELSE n

\* advance by length along the heading
Advance(st, length) ==
    [x |-> st.x + length * Cos(st.heading),
     y |-> st.y + length * Sin(st.heading),
     heading |-> st.heading]

\* turn by degrees along an arc of the given radius (left when degrees > 0)
Turn(st, degrees, radius) ==
    LET along == radius * Sin(Abs(degrees) % 360)
        side == radius * (1 - Cos(Abs(degrees) % 360))
        perp == IF degrees < 0 THEN -side ELSE side
    IN  [x |-> st.x + along * Cos(st.heading) - perp * Sin(st.heading),
         y |-> st.y + along * Sin(st.heading) + perp * Cos(st.heading),
         heading |-> (st.heading + degrees) % 360]

RECURSIVE follow(_, _)
follow(path, st) ==
    IF path = << >> THEN st
    ELSE LET s == Head(path)
         IN  follow(Tail(path),
                    IF s.op = "edge" THEN Advance(st, s.length)
                    ELSE Turn(st, s.degrees, s.radius))

Origin == [x |-> 0, y |-> 0]

(* ---- state machine ------------------------------------------------------ *)
Init ==
    /\ deckheight \in DeckHeights
    /\ cardwidth \in CardWidths
    /\ cardheight \in CardHeights
    /\ num \in Nums
    /\ thickness \in Thicknesses
    /\ pc = 1
    /\ edges = BaseEdges
    /\ registered = [ch \in CustomChars |-> 0]
    /\ cursor = Origin
    /\ ctx = << >>
    /\ groups = 0
    /\ origins = << >>
    /\ restored = << >>
    /\ panels = << >>
    /\ placeholders = << >>

running == pc <= Len(render)

done == pc = Len(render) + 1

stmt == render[pc]

\* self.addPart(p): bind the edge object to its char
AddPart ==
    /\ running
    /\ stmt.op = "addPart"
    /\ edges' = [ch \in DOMAIN edges \cup {stmt.char} |->
                    IF ch = stmt.char
                    THEN [kind |-> stmt.kind, setting |-> stmt.setting]
                    ELSE edges[ch]]
    /\ registered' = [registered EXCEPT ![stmt.char] = @ + 1]
    /\ pc' = pc + 1
    /\ UNCHANGED <<params, cursor, ctx, groups, origins, restored, panels, placeholders>>

\* with self.saved_context(): entering saves the cursor
SavedContextEnter ==
    /\ running
    /\ stmt.op = "enter"
    /\ ctx' = <<cursor>> \o ctx
    /\ groups' = groups + 1
    /\ origins' = Append(origins, cursor)
    /\ pc' = pc + 1
    /\ UNCHANGED <<params, edges, registered, cursor, restored, panels, placeholders>>

\* leaving the with block restores the saved cursor
SavedContextExit ==
    /\ running
    /\ stmt.op = "exit"
    /\ ctx # << >>
    /\ cursor' = Head(ctx)
    /\ ctx' = Tail(ctx)
    /\ restored' = Append(restored, Head(ctx))
    /\ pc' = pc + 1
    /\ UNCHANGED <<params, edges, registered, groups, origins, panels, placeholders>>

\* rectangularWall with a drawing move: draw the four sides, run the
\* callback, advance the cursor
RectangularWall ==
    /\ running
    /\ stmt.op = "rectangularWall"
    /\ stmt.move \notin {"up only"}
    /\ LET lengths == <<stmt.x, stmt.y, stmt.x, stmt.y>>
       IN  panels' = Append(panels,
              [label |-> stmt.label, x |-> stmt.x, y |-> stmt.y, code |-> stmt.code,
               callback |-> stmt.callback, holes |-> callbacks(stmt.callback),
               at |-> cursor, group |-> IF ctx = << >> THEN 0 ELSE groups,
               lengths |-> lengths,
               bound |-> [i \in 1..4 |-> bindingOf(stmt.code[i])],
               paths |-> [i \in 1..4 |-> pathOf(stmt.code[i], lengths[i])]])
    /\ cursor' = move(cursor, stmt.x, stmt.y, stmt.move)
    /\ pc' = pc + 1
    /\ UNCHANGED <<params, edges, registered, ctx, groups, origins, restored, placeholders>>

\* rectangularWall with move="up only": the cursor advances, nothing is drawn
RectangularWallOnly ==
    /\ running
    /\ stmt.op = "rectangularWall"
    /\ stmt.move = "up only"
    /\ placeholders' = Append(placeholders,
          [x |-> stmt.x, y |-> stmt.y, code |-> stmt.code, group |-> groups,
           from |-> cursor, to |-> move(cursor, stmt.x, stmt.y, stmt.move)])
    /\ cursor' = move(cursor, stmt.x, stmt.y, stmt.move)
    /\ pc' = pc + 1
    /\ UNCHANGED <<params, edges, registered, ctx, groups, origins, restored, panels>>

Next ==
    \/ AddPart
    \/ SavedContextEnter
    \/ SavedContextExit
    \/ RectangularWall
    \/ RectangularWallOnly

Spec == Init /\ [][Next]_vars

(* ---- shared vocabulary of the properties --------------------------------- *)
ValidParameters ==
    /\ thickness > 0
    /\ deckheight > 0
    /\ cardwidth > 0
    /\ cardheight > 0
    /\ num >= 1

PanelIdx == 1..Len(panels)

labelled(l) == {k \in PanelIdx : panels[k].label = l}

FixedLabels ==
    << "Lid", "Bottom", "Lip Front", "Lip Back", "Back", "Front",
       "Outer Side Left", "Outer Side Right", "Inner Side Left",
       "Inner Side Right", "Lid Lip" >>

\* closed forms of the derived dimensions, written out independently
W == num * deckheight + (num + 1) * thickness

D == cardwidth + thickness + thickness

ScenarioA ==
    /\ deckheight = 650
    /\ cardwidth = 680
    /\ cardheight = 920
    /\ num = 3
    /\ thickness = 30

(* ======================================================================== *)
(* C1 (as amended): for every num >= 1 a complete run of render draws       *)
(* 12 fixed panels (Lid, Bottom, 2 Lip, Back, Front, 2 Outer Side,          *)
(* 2 Inner Side, Lid Lip, Lid topper) + (num-1) Dividers + 2*num inlays,    *)
(* and makes 5 further undrawn "up only" emissions; for num = 1 there is no *)
(* Divider and exactly one Front inlay / Back inlay pair.                   *)
(* ======================================================================== *)
C1_PanelCount ==
    (done /\ num >= 1) =>
        /\ Len(panels) = 12 + (num - 1) + 2 * num
        /\ Len(placeholders) = 5
        /\ \A i \in 1..Len(FixedLabels) : Cardinality(labelled(FixedLabels[i])) = 1
        /\ Cardinality(labelled("Lid topper")) = 1
        /\ Cardinality(labelled("Divider")) = num - 1
        /\ Cardinality(labelled("Front inlay")) = num
        /\ Cardinality(labelled("Back inlay")) = num

C1_Witness ==
    /\ done
    /\ num = 1
    /\ Len(panels) = 14
    /\ labelled("Divider") = {}
    /\ Cardinality(labelled("Front inlay")) = 1

\* C1 as originally stated: 13 fixed panels, whether the undrawn emissions
\* are counted or not
C1_Original ==
    (done /\ num >= 1) =>
        \/ Len(panels) = 13 + (num - 1) + 2 * num
        \/ Len(panels) + Len(placeholders) = 13 + (num - 1) + 2 * num

(* ======================================================================== *)
(* C2: for num >= 1, deckheight > 0, thickness > 0, divider_bottom and      *)
(* divider_back_and_front (on Bottom, resp. Back and Front) register num-1   *)
(* holes, the i-th at x = 0.5*thickness + (deckheight+thickness)*i,         *)
(* strictly increasing, consecutive ones deckheight+thickness apart, the    *)
(* same offsets in both; hole length is boxdepth on the bottom and          *)
(* cardheight on back/front. Scenario A gives 69.5 and 137.5; num = 1 gives *)
(* no holes.                                                                *)
(* ======================================================================== *)
offsets(p) == [i \in 1..Len(p.holes) |-> p.holes[i].x]

C2_DividerHoles ==
    (num >= 1 /\ deckheight > 0 /\ thickness > 0) =>
        /\ \A k \in PanelIdx :
              LET p == panels[k]
              IN  /\ p.label \in {"Bottom", "Back", "Front"} =>
                        /\ Len(p.holes) = num - 1
                        /\ \A i \in 1..Len(p.holes) :
                              /\ 2 * p.holes[i].x = thickness + 2 * (deckheight + thickness) * i
                              /\ p.holes[i].y = 0
                              /\ p.holes[i].angle = 90
                              /\ p.holes[i].length =
                                    IF p.label = "Bottom" THEN cardwidth + 2 * thickness
                                    ELSE cardheight
                        /\ \A i \in 1..(Len(p.holes) - 1) :
                              /\ p.holes[i].x < p.holes[i + 1].x
                              /\ p.holes[i + 1].x - p.holes[i].x = deckheight + thickness
                        /\ (deckheight = 650 /\ thickness = 30 /\ num = 3) =>
                              offsets(p) = <<695, 1375>>
                        /\ num = 1 => p.holes = << >>
                  /\ p.label \notin {"Bottom", "Back", "Front"} => p.holes = << >>
        /\ \A k1 \in PanelIdx, k2 \in PanelIdx :
              (panels[k1].label = "Bottom" /\ panels[k2].label \in {"Back", "Front"})
                  => offsets(panels[k1]) = offsets(panels[k2])

C2_Witness ==
    /\ ScenarioA
    /\ \E k1 \in PanelIdx, k2 \in PanelIdx :
          /\ panels[k1].label = "Bottom"
          /\ panels[k2].label = "Front"
          /\ offsets(panels[k1]) = <<695, 1375>>
          /\ offsets(panels[k2]) = <<695, 1375>>

(* ======================================================================== *)
(* C3: with valid parameters boxwidth = num*(deckheight+thickness)          *)
(* +thickness, boxdepth = cardwidth+2*thickness, height = cardheight, and   *)
(* every emission of render is sized from exactly these values. Scenario A  *)
(* gives 207, 74, 92.                                                       *)
(* ======================================================================== *)
expectedSize(l) ==
    LET t == thickness
    IN  CASE l = "Lid" -> <<W, D - t \div 5>>
          [] l = "Bottom" -> <<W, D>>
          [] l \in {"Lip Front", "Lip Back"} -> <<W, t>>
          [] l \in {"Back", "Front"} -> <<W, cardheight + t>>
          [] l \in {"Outer Side Left", "Outer Side Right"} -> <<D, cardheight + t>>
          [] l \in {"Inner Side Left", "Inner Side Right"} -> <<D, cardheight>>
          [] l = "Lid Lip" -> <<D - t \div 5, t>>
          [] l = "Divider" -> <<cardheight, D>>
          [] l \in {"Front inlay", "Back inlay"} -> <<deckheight, cardheight>>
          [] l = "Lid topper" -> <<W, D - 2 * t>>

expectedPlaceholders ==
    << <<W, D>>, <<W, cardheight + thickness>>, <<D, cardheight + thickness>>,
       <<D, cardheight>>, <<D, 2 * thickness>> >>

C3_DerivedDimensions ==
    ValidParameters =>
        /\ boxwidth = W
        /\ boxdepth = D
        /\ h = cardheight
        /\ \A k \in PanelIdx : <<panels[k].x, panels[k].y>> = expectedSize(panels[k].label)
        /\ \A g \in 1..Len(placeholders) :
              <<placeholders[g].x, placeholders[g].y>> = expectedPlaceholders[g]
        /\ ScenarioA =>
              /\ boxwidth = 2070 /\ boxdepth = 740 /\ h = 920
              /\ \A k \in labelled("Bottom") : <<panels[k].x, panels[k].y>> = <<2070, 740>>
              /\ \A k \in labelled("Inner Side Left") : <<panels[k].x, panels[k].y>> = <<740, 920>>

C3_Witness ==
    /\ ScenarioA
    /\ done
    /\ \E k \in labelled("Bottom") : <<panels[k].x, panels[k].y>> = <<2070, 740>>
    /\ \E k \in labelled("Lid topper") : <<panels[k].x, panels[k].y>> = <<2070, 680>>

(* ======================================================================== *)
(* C4: with an invalid parameter (thickness, deckheight, cardwidth or       *)
(* cardheight <= 0, or num < 1) a run fails before the first panel: no      *)
(* state of such a run has a panel emitted, drawn or undrawn.               *)
(* ======================================================================== *)
C4_FailFast ==
    ~ValidParameters =>
        /\ panels = << >>
        /\ placeholders = << >>

(* ======================================================================== *)
(* C5: the finger-hole edge is never drawn with an edge length <= 20 (the   *)
(* run fails instead), so its outer segments length/2 - 10 are always       *)
(* positive; whenever it is drawn its two outer segments are length/2 - 10  *)
(* and its two depth segments are wallheight/5.                             *)
(* ======================================================================== *)
straights(path) == SelectSeq(path, LAMBDA s : s.op = "edge")

C5_GeometryUnderflow ==
    ValidParameters =>
        \A k \in PanelIdx : \A i \in 1..4 :
            panels[k].bound[i] = "FingerHoleEdge" =>
                LET length == panels[k].lengths[i]
                    segs == straights(panels[k].paths[i])
                IN  /\ length > 200
                    /\ \A j \in 1..Len(segs) : segs[j].length > 0
                    /\ Len(segs) = 4
                    /\ 2 * segs[1].length = length - 200
                    /\ segs[4].length = segs[1].length
                    /\ 5 * segs[2].length = cardheight
                    /\ segs[3].length = segs[2].length

(* ======================================================================== *)
(* C6: whenever a panel is emitted, each custom symbol of its edge code     *)
(* ("a", "A") is already registered; each of the two is registered exactly  *)
(* once per run, "a" bound to the inset edge with the material thickness    *)
(* and "A" to the finger-hole edge with wall height = cardheight.           *)
(* ======================================================================== *)
C6_RegisteredBeforeUse ==
    /\ \A k \in PanelIdx : \A i \in 1..4 :
          /\ panels[k].bound[i] # "UnregisteredEdgeSymbol"
          /\ panels[k].code[i] = "a" => panels[k].bound[i] = "InsetEdge"
          /\ panels[k].code[i] = "A" => panels[k].bound[i] = "FingerHoleEdge"
    /\ \A ch \in CustomChars :
          /\ registered[ch] <= 1
          /\ registered[ch] = 1 <=> ch \in DOMAIN edges
          /\ (panels # << >> \/ placeholders # << >> \/ done) => registered[ch] = 1
    /\ "a" \in DOMAIN edges => edges["a"] = [kind |-> "InsetEdge", setting |-> thickness]
    /\ "A" \in DOMAIN edges => edges["A"] = [kind |-> "FingerHoleEdge", setting |-> cardheight]

C6_Witness ==
    /\ done
    /\ \E k \in PanelIdx : \E i \in 1..4 :
          panels[k].code[i] = "a" /\ panels[k].bound[i] = "InsetEdge"
    /\ \E k \in PanelIdx : \E i \in 1..4 :
          panels[k].code[i] = "A" /\ panels[k].bound[i] = "FingerHoleEdge"
    /\ registered = [ch \in CustomChars |-> 1]

(* ======================================================================== *)
(* C7 (as amended): for every num >= 1 render emits exactly num-1 Divider   *)
(* panels, each of size (cardheight, boxdepth), and each Divider's edge     *)
(* code uses the finger-hole symbol "A" on exactly one of its four edges    *)
(* (the second) and the inset-rail symbol "a" on none.                      *)
(* ======================================================================== *)
sidesBound(p, kind) == {i \in 1..4 : p.bound[i] = kind}

overlap(p, q) ==
    /\ p.at.x < q.at.x + q.x
    /\ q.at.x < p.at.x + p.x
    /\ p.at.y < q.at.y + q.y
    /\ q.at.y < p.at.y + p.y

C8_Groups ==
    /\ Len(ctx) <= 1
    /\ Len(ctx) = Len(origins) - Len(restored)
    /\ groups = Len(origins)
    /\ done => (ctx = << >> /\ Len(origins) = 5 /\ Len(restored) = 5)
    /\ \A g \in 1..Len(restored) : restored[g] = origins[g]
    /\ (ctx = << >> /\ Len(placeholders) < Len(restored)) => cursor = origins[Len(restored)]
    /\ ValidParameters =>
          /\ \A g \in 1..Len(placeholders) :
                LET ph == placeholders[g]
                IN  /\ ph.group = g
                    /\ ph.from = origins[g]
                    /\ ph.to.x = ph.from.x
                    /\ \A k \in PanelIdx :
                          panels[k].group = g =>
                              /\ ph.y >= panels[k].y
                              /\ ph.to.y - ph.from.y >= panels[k].y
                              /\ ph.to.y >= panels[k].at.y + panels[k].y
          /\ \A k1 \in PanelIdx, k2 \in PanelIdx :
                (panels[k1].group # 0 /\ k1 < k2 /\ panels[k2].group # panels[k1].group)
                    => ~overlap(panels[k1], panels[k2])

C8_Witness ==
    /\ ValidParameters
    /\ done
    /\ num = 2
    /\ Len(placeholders) = 5
    /\ restored = origins
    /\ \E k1 \in labelled("Lid Lip"), k2 \in labelled("Divider") :
          panels[k2].at.y >= panels[k1].at.y + panels[k1].y

(* ======================================================================== *)
(* C9: for positive length and thickness (resp. wall height) each custom    *)
(* edge path replaces a straight edge of that length: the inset edge (turn  *)
(* 90, advance t, turn -90, advance length, turn -90, advance t, turn 90)   *)
(* and the finger-hole edge (advance length/2-10, turn 90, advance depth,   *)
(* turn -180 with radius 10, advance depth, turn 90, advance length/2-10)   *)
(* end with the heading they started with, no displacement across the edge  *)
(* and displacement exactly length along it, and every straight segment is  *)
(* tab-eligible (tabs=2).                                                   *)
(* ======================================================================== *)
Start == [x |-> 0, y |-> 0, heading |-> 0]

turns(path) ==
    LET cs == SelectSeq(path, LAMBDA s : s.op = "corner")
    IN  [j \in 1..Len(cs) |-> <<cs[j].degrees, cs[j].radius>>]

C9_DropInEdges ==
    \A k \in PanelIdx : \A i \in 1..4 :
        LET p == panels[k]
            length == p.lengths[i]
            path == p.paths[i]
            segs == straights(path)
        IN  (p.code[i] \in CustomChars /\ length > 0 /\ edges[p.code[i]].setting > 0) =>
                /\ follow(path, Start) = [x |-> length, y |-> 0, heading |-> 0]
                /\ \A j \in 1..Len(segs) : segs[j].tabs = 2
                /\ p.code[i] = "a" =>
                      /\ turns(path) = << <<90, 0>>, <<-90, 0>>, <<-90, 0>>, <<90, 0>> >>
                      /\ [j \in 1..Len(segs) |-> segs[j].length] = <<thickness, length, thickness>>
                /\ p.code[i] = "A" =>
                      /\ turns(path) = << <<90, 0>>, <<-180, 100>>, <<90, 0>> >>
                      /\ Len(segs) = 4
                      /\ 2 * segs[1].length = length - 200
                      /\ segs[4].length = segs[1].length
                      /\ 5 * segs[2].length = cardheight
                      /\ segs[3].length = segs[2].length

C9_Witness ==
    /\ \E k \in labelled("Outer Side Right") :
          /\ panels[k].lengths[3] = 740
          /\ follow(panels[k].paths[3], Start) = [x |-> 740, y |-> 0, heading |-> 0]
    /\ \E k \in labelled("Inner Side Left") :
          /\ panels[k].lengths[1] = 740
          /\ Len(panels[k].paths[1]) = 7
          /\ follow(panels[k].paths[1], Start) = [x |-> 740, y |-> 0, heading |-> 0]

(* ======================================================================== *)
(* C10: for every num >= 1 the labelled panels are emitted in one fixed     *)
(* order: Lid, Bottom, Lip Front, Lip Back, Back, Front, Outer Side Left,   *)
(* Outer Side Right, Inner Side Left, Inner Side Right, Lid Lip, num-1      *)
(* Dividers, num times (Front inlay, Back inlay), Lid topper;               *)
(* divider_bottom is attached only to Bottom and divider_back_and_front     *)
(* only to Back and Front; exactly one Outer Side panel carries the         *)
(* inset-rail symbol, the other has a plain edge in the same position.      *)
(* ======================================================================== *)
expectedOrder ==
    FixedLabels
        \o [i \in 1..(num - 1) |-> "Divider"]
        \o [i \in 1..(2 * num) |-> IF i % 2 = 1 THEN "Front inlay" ELSE "Back inlay"]
        \o << "Lid topper" >>

C10_EmissionOrder ==
    num >= 1 =>
        /\ Len(panels) <= Len(expectedOrder)
        /\ \A k \in PanelIdx : panels[k].label = expectedOrder[k]
        /\ done => Len(panels) = Len(expectedOrder)
        /\ \A k \in PanelIdx :
              /\ panels[k].callback = "divider_bottom" <=> panels[k].label = "Bottom"
              /\ panels[k].callback = "divider_back_and_front"
                    <=> panels[k].label \in {"Back", "Front"}
              /\ panels[k].callback \in {"none", "divider_bottom", "divider_back_and_front"}
        /\ \A k \in labelled("Outer Side Left") :
              /\ sidesBound(panels[k], "InsetEdge") = {}
              /\ panels[k].bound[3] \in {"Edge", "OutSetEdge"}
        /\ \A k \in labelled("Outer Side Right") :
              sidesBound(panels[k], "InsetEdge") = {3}

C10_Witness ==
    /\ done
    /\ num = 2
    /\ [k \in PanelIdx |-> panels[k].label] =
          FixedLabels \o << "Divider", "Front inlay", "Back inlay",
                            "Front inlay", "Back inlay", "Lid topper" >>

====
